---- MODULE Spec2Model ----
(***************************************************************************)
(* Model of the task analytics engine of GHMonitoring                      *)
(* (backend/src/services/task-processor.ts, TaskProcessorService) over the *)
(* Task and TaskStats types of backend/src/types/task.ts.                  *)
(*                                                                         *)
(* A Date is an integer number of clock units in local time; DayLen units  *)
(* make one local calendar day.  A nullable field is None (null) or        *)
(* Some(v).  A string is a sequence of one-character strings, so that      *)
(* toUpperCase is computed character by character.  Array.prototype.filter *)
(* is SelectSeq.                                                           *)
(***************************************************************************)
EXTENDS Integers, Sequences, FiniteSets, TLC

VARIABLES tasks, now, last, prev, ui

vars == <<tasks, now, last, prev, ui>>

(***************************************************************************)
(* Bounds                                                                  *)
(***************************************************************************)
MaxTasks == 2      \* longest task collection
DayLen == 2        \* clock units per local calendar day
MaxTime == 3       \* last clock value; the clock runs over 0..MaxTime
MaxPages == 15     \* most pages the page buttons are drawn for
MaxTableTasks == 11  \* most tasks handed to the tasks table
MaxChartTasks == 3   \* most tasks handed to the assignee chart

(***************************************************************************)
(* Values                                                                  *)
(***************************************************************************)
None == <<>>

Some(v) == <<v>>

Val(o) == o[1]

Times == 0..MaxTime

KnownStates == {"OPEN", "CLOSED", "MERGED"}

\* a state value outside the declared union, as data from outside can carry
OtherState == "DRAFT"

LowerLetters == <<"a", "b", "c", "d", "e", "f", "g", "h", "i", "j", "k", "l", "m",
                  "n", "o", "p", "q", "r", "s", "t", "u", "v", "w", "x", "y", "z">>

UpperLetters == <<"A", "B", "C", "D", "E", "F", "G", "H", "I", "J", "K", "L", "M",
                  "N", "O", "P", "Q", "R", "S", "T", "U", "V", "W", "X", "Y", "Z">>

toUpperChar(c) ==
  IF \E k \in 1..26 : LowerLetters[k] = c
    THEN UpperLetters[CHOOSE k \in 1..26 : LowerLetters[k] = c]
    ELSE c

\* String.prototype.toUpperCase
toUpperCase(s) == [k \in 1..Len(s) |-> toUpperChar(s[k])]

\* the string literals 'P0' and 'P1'
StrP0 == <<"P", "0">>

StrP1 == <<"P", "1">>

\* a Task; id is the task's position in the collection it was delivered in
Task(id, st, due, pr, asg) ==
  [id |-> id, state |-> st, dueDate |-> due, priority |-> pr, assignees |-> asg,
   repository |-> None, status |-> None, createdAt |-> 0]

(***************************************************************************)
(* isOverdue                                                               *)
(***************************************************************************)
\* new Date(d.getFullYear(), d.getMonth(), d.getDate()): local midnight of d's day
StartOfDay(t) == t - (t % DayLen)

isOverdue_NoStateCheck(task, clock) ==
  IF task.dueDate = None THEN FALSE
  ELSE StartOfDay(Val(task.dueDate)) <= StartOfDay(clock)

isOverdue_Timestamp(task, clock) ==
  IF task.dueDate = None THEN FALSE
  ELSE IF task.state = "CLOSED" \/ task.state = "MERGED" THEN FALSE
  ELSE Val(task.dueDate) <= clock

isOverdue(task, clock) ==
  IF task.dueDate = None THEN FALSE
  ELSE IF task.state = "CLOSED" \/ task.state = "MERGED" THEN FALSE
  ELSE StartOfDay(Val(task.dueDate)) <= StartOfDay(clock)

(***************************************************************************)
(* calculateStats                                                          *)
(***************************************************************************)
\* !t.priority: null and the empty string are falsy
NoPriorityValue(task) == task.priority = None \/ Val(task.priority) = <<>>

\* t.priority?.toUpperCase() === lit: undefined === lit is false
UpperIs(task, lit) ==
  IF task.priority = None THEN FALSE ELSE toUpperCase(Val(task.priority)) = lit

countOpen(ts) == Len(SelectSeq(ts, LAMBDA t : t.state = "OPEN"))

countClosed_NotOpen(ts) == Len(SelectSeq(ts, LAMBDA t : t.state # "OPEN"))

countClosed(ts) == Len(SelectSeq(ts, LAMBDA t : t.state = "CLOSED" \/ t.state = "MERGED"))

overdueListOf_AllDated(ts, clockAt) ==
  SelectSeq(ts, LAMBDA t : isOverdue_NoStateCheck(t, clockAt[t.id]))

\* tasks.filter((t) => this.isOverdue(t)); clockAt[k] is what new Date() gives
\* in the call for the k-th task
overdueListOf(ts, clockAt) == SelectSeq(ts, LAMBDA t : isOverdue(t, clockAt[t.id]))

noTechHandoffETAListOf_AnyState(ts) == SelectSeq(ts, LAMBDA t : t.dueDate = None)

noTechHandoffETAListOf(ts) == SelectSeq(ts, LAMBDA t : t.state = "OPEN" /\ t.dueDate = None)

noETAIsP0(task) == UpperIs(task, StrP0)

noETAIsP1(task) == UpperIs(task, StrP1)

noETAIsNoPriority_FalsyOnly(task) == NoPriorityValue(task)

noETAIsNoPriority(task) ==
  IF NoPriorityValue(task) THEN TRUE
  ELSE toUpperCase(Val(task.priority)) # StrP0 /\ toUpperCase(Val(task.priority)) # StrP1

unassignedTasksOf_AnyState(ts) == SelectSeq(ts, LAMBDA t : Len(t.assignees) = 0)

unassignedTasksOf(ts) == SelectSeq(ts, LAMBDA t : t.state = "OPEN" /\ Len(t.assignees) = 0)

unassignedIsP0(task) == UpperIs(task, StrP0)

unassignedIsP1_CaseSensitive(task) == task.priority = Some(StrP1)

unassignedIsP1(task) == UpperIs(task, StrP1)

unassignedIsNoPriority(task) ==
  IF NoPriorityValue(task) THEN TRUE
  ELSE toUpperCase(Val(task.priority)) # StrP0 /\ toUpperCase(Val(task.priority)) # StrP1

calculateStats(ts, clockAt) ==
  LET overdueList == overdueListOf(ts, clockAt)
      noTechHandoffETAList == noTechHandoffETAListOf(ts)
      noETAP0List == SelectSeq(noTechHandoffETAList, noETAIsP0)
      noETAP1List == SelectSeq(noTechHandoffETAList, noETAIsP1)
      noETANoPriorityList == SelectSeq(noTechHandoffETAList, noETAIsNoPriority)
      unassignedTasks == unassignedTasksOf(ts)
      p0List == SelectSeq(unassignedTasks, unassignedIsP0)
      p1List == SelectSeq(unassignedTasks, unassignedIsP1)
      noPriorityList == SelectSeq(unassignedTasks, unassignedIsNoPriority)
  IN [total |-> Len(ts),
      open |-> countOpen(ts),
      closed |-> countClosed(ts),
      overdue |-> Len(overdueList),
      overdueList |-> overdueList,
      noTechHandoffETA |-> Len(noTechHandoffETAList),
      noTechHandoffETAList |-> noTechHandoffETAList,
      noTechHandoffETAByPriority |->
        [p0 |-> Len(noETAP0List), p1 |-> Len(noETAP1List),
         noPriority |-> Len(noETANoPriorityList),
         p0List |-> noETAP0List, p1List |-> noETAP1List,
         noPriorityList |-> noETANoPriorityList],
      unassignedByPriority |->
        [p0 |-> Len(p0List), p1 |-> Len(p1List), noPriority |-> Len(noPriorityList),
         p0List |-> p0List, p1List |-> p1List, noPriorityList |-> noPriorityList]]

(***************************************************************************)
(* segregateTasks                                                          *)
(***************************************************************************)
segregateOpen(ts) == SelectSeq(ts, LAMBDA t : t.state = "OPEN")

segregateClosed_OnlyClosed(ts) == SelectSeq(ts, LAMBDA t : t.state = "CLOSED")

segregateClosed(ts) == SelectSeq(ts, LAMBDA t : t.state = "CLOSED" \/ t.state = "MERGED")

segregateTasks(ts) == [open |-> segregateOpen(ts), closed |-> segregateClosed(ts)]

(***************************************************************************)
(* Inputs                                                                  *)
(***************************************************************************)
\* tasks is a collection of at most MaxTasks tasks whose fields come from
\* Pool, a set of <<state, dueDate, priority, assignees>>
TasksFrom(Pool) ==
  \E n \in 0..MaxTasks : \E f \in [1..n -> Pool] :
    tasks = [k \in 1..n |-> Task(k, f[k][1], f[k][2], f[k][3], f[k][4])]

DueDates == {None} \cup {Some(t) : t \in Times}

\* the clock readings of n successive new Date() calls that start at clock c:
\* the clock never runs backwards and may move on once while the calls run
ClockReads(n, c) ==
  {[k \in 1..n |-> IF k <= split THEN c ELSE c + 1] :
     split \in (IF c < MaxTime THEN 0..n ELSE {n})}

NoResult == [op |-> "none"]

\* no tasks table is mounted
NoUi == [mounted |-> FALSE]

(***************************************************************************)
(* Operations                                                              *)
(***************************************************************************)
\* time passes between two calls
Tick ==
  /\ now < MaxTime
  /\ now' = now + 1
  /\ UNCHANGED <<tasks, last, prev, ui>>

IsOverdue ==
  \E k \in 1..Len(tasks) :
    /\ last' = [op |-> "isOverdue", task |-> tasks[k], at |-> now,
                result |-> isOverdue(tasks[k], now)]
    /\ prev' = NoResult
    /\ UNCHANGED <<tasks, now, ui>>

CalculateStats ==
  \E clockAt \in ClockReads(Len(tasks), now) :
    /\ last' = [op |-> "calculateStats", from |-> now, clockAt |-> clockAt,
                stats |-> calculateStats(tasks, clockAt)]
    /\ now' = IF Len(tasks) = 0 THEN now ELSE clockAt[Len(tasks)]
    /\ prev' = NoResult
    /\ UNCHANGED <<tasks, ui>>

\* calculateStats called again on the same collection, directly after a
\* calculateStats call; prev keeps the earlier result
CalculateStatsAgain ==
  /\ last.op = "calculateStats"
  /\ prev = NoResult
  /\ \E clockAt \in ClockReads(Len(tasks), now) :
       /\ last' = [op |-> "calculateStats", from |-> now, clockAt |-> clockAt,
                   stats |-> calculateStats(tasks, clockAt)]
       /\ now' = IF Len(tasks) = 0 THEN now ELSE clockAt[Len(tasks)]
  /\ prev' = last
  /\ UNCHANGED <<tasks, ui>>

SegregateTasks ==
  /\ last' = [op |-> "segregateTasks", result |-> segregateTasks(tasks)]
  /\ prev' = NoResult
  /\ UNCHANGED <<tasks, now, ui>>

(***************************************************************************)
(* Spec: the overdue classifier and the overdue list, over collections     *)
(* whose tasks differ in state and dueDate, with a running clock           *)
(***************************************************************************)
OverduePool == {<<st, due, None, <<>>>> : st \in KnownStates, due \in DueDates}

Init ==
  /\ TasksFrom(OverduePool)
  /\ now \in Times
  /\ last = NoResult
  /\ prev = NoResult
  /\ ui = NoUi

Next == Tick \/ IsOverdue \/ CalculateStats \/ SegregateTasks

Spec == Init /\ [][Next]_vars

(***************************************************************************)
(* Helpers of the properties                                               *)
(***************************************************************************)
\* local calendar day of a clock value
DayOf(t) == t \div DayLen

\* the tasks of ts at the positions S, in collection order
Picked(ts, S) ==
  [j \in 1..Cardinality(S) |->
     ts[CHOOSE k \in S : Cardinality({m \in S : m < k}) = j - 1]]

\* how often task t occurs in list
Count(list, t) == Cardinality({j \in DOMAIN list : list[j] = t})

Positions(ts) == DOMAIN ts

Range(list) == {list[j] : j \in DOMAIN list}

(***************************************************************************)
(* C1..C2, C9..C10 under Spec                                              *)
(***************************************************************************)
\* C1: isOverdue is false for a task with no dueDate and for a task whose
\* state is CLOSED or MERGED, at every clock value.
C1_NeverOverdueWhenUndatedOrDone ==
  last.op = "isOverdue" =>
    ((last.task.dueDate = None \/ last.task.state \in {"CLOSED", "MERGED"})
       => last.result = FALSE)

\* a CLOSED or MERGED task due on an earlier day was classified
C1_Witness ==
  /\ last.op = "isOverdue"
  /\ last.task.state \in {"CLOSED", "MERGED"}
  /\ last.task.dueDate # None
  /\ DayOf(Val(last.task.dueDate)) < DayOf(last.at)
  /\ last.result = FALSE

\* C2: for an OPEN task with a dueDate, isOverdue is true exactly when the
\* calendar day of dueDate is on or before the calendar day of now, whatever
\* the time of day of either.
C2_OverdueIffDueDayReached ==
  (last.op = "isOverdue" /\ last.task.state = "OPEN" /\ last.task.dueDate # None) =>
    (last.result <=> DayOf(Val(last.task.dueDate)) <= DayOf(last.at))

\* an OPEN task due later today than now was classified overdue
C2_Witness ==
  /\ last.op = "isOverdue"
  /\ last.task.state = "OPEN"
  /\ last.task.dueDate # None
  /\ Val(last.task.dueDate) > last.at
  /\ DayOf(Val(last.task.dueDate)) = DayOf(last.at)
  /\ last.result = TRUE

\* C9: every task of overdueList is OPEN, so overdue <= open; overdueList is
\* the tasks for which isOverdue answered true, in collection order, and
\* overdue is its length.
C9_OverdueListOpenOrdered ==
  last.op = "calculateStats" =>
    LET st == last.stats
        due == {k \in Positions(tasks) :
                  /\ tasks[k].state = "OPEN"
                  /\ tasks[k].dueDate # None
                  /\ DayOf(Val(tasks[k].dueDate)) <= DayOf(last.clockAt[k])}
    IN /\ \A j \in DOMAIN st.overdueList : st.overdueList[j].state = "OPEN"
       /\ st.overdue <= st.open
       /\ st.overdueList = Picked(tasks, due)
       /\ st.overdue = Len(st.overdueList)

\* two overdue OPEN tasks were listed, in collection order
C9_Witness ==
  /\ last.op = "calculateStats"
  /\ last.stats.overdue = 2
  /\ last.stats.overdueList[1].id < last.stats.overdueList[2].id

\* C10: segregateTasks puts the OPEN tasks in open and the CLOSED and MERGED
\* tasks in closed, each in collection order, and every task in exactly one
\* of the two lists.
C10_SegregatePartitions ==
  last.op = "segregateTasks" =>
    LET r == last.result
    IN /\ r.open = Picked(tasks, {k \in Positions(tasks) : tasks[k].state = "OPEN"})
       /\ r.closed = Picked(tasks, {k \in Positions(tasks) :
                                     tasks[k].state \in {"CLOSED", "MERGED"}})
       /\ Range(r.open) \cap Range(r.closed) = {}
       /\ \A k \in Positions(tasks) :
            Count(r.open, tasks[k]) + Count(r.closed, tasks[k]) = 1

\* a collection holding a MERGED task and an OPEN task was segregated
C10_Witness ==
  /\ last.op = "segregateTasks"
  /\ Len(last.result.open) >= 1
  /\ \E j \in DOMAIN last.result.closed : last.result.closed[j].state = "MERGED"

(***************************************************************************)
(* SpecUntyped: calculateStats over collections whose tasks may carry a    *)
(* state outside 'OPEN' | 'CLOSED' | 'MERGED'                              *)
(***************************************************************************)
UntypedPool ==
  {<<st, due, None, <<>>>> : st \in KnownStates \cup {OtherState},
                             due \in {None, Some(0)}}

InitUntyped ==
  /\ TasksFrom(UntypedPool)
  /\ now \in Times
  /\ last = NoResult
  /\ prev = NoResult
  /\ ui = NoUi

NextUntyped == CalculateStats

SpecUntyped == InitUntyped /\ [][NextUntyped]_vars

\* C3: open + closed <= total, with equality when every state is OPEN, CLOSED
\* or MERGED; a task with another state is counted in total and in neither
\* open nor closed.
C3_OpenClosedWithinTotal ==
  last.op = "calculateStats" =>
    LET st == last.stats
        known == {k \in Positions(tasks) : tasks[k].state \in {"OPEN", "CLOSED", "MERGED"}}
    IN /\ st.open + st.closed <= st.total
       /\ (known = Positions(tasks) => st.open + st.closed = st.total)
       /\ st.total = Len(tasks)
       /\ st.open = Cardinality({k \in Positions(tasks) : tasks[k].state = "OPEN"})
       /\ st.closed =
            Cardinality({k \in Positions(tasks) : tasks[k].state \in {"CLOSED", "MERGED"}})
       /\ st.open + st.closed = Cardinality(known)

\* a collection with a task of another state beside a MERGED one was counted
C3_Witness ==
  /\ last.op = "calculateStats"
  /\ \E k \in Positions(tasks) : tasks[k].state = OtherState
  /\ \E k \in Positions(tasks) : tasks[k].state = "MERGED"
  /\ last.stats.total = 2
  /\ last.stats.closed = 1
  /\ last.stats.open = 0

(***************************************************************************)
(* SpecStats: the gap lists and their priority breakdowns.  OPEN tasks     *)
(* carry every priority spelling; CLOSED and MERGED tasks carry none or    *)
(* p0.  The clock stands at its last value: none of these fields reads it. *)
(***************************************************************************)
Priorities ==
  {None, Some(<<>>), Some(<<"p", "0">>), Some(<<"P", "0">>), Some(<<"p", "1">>),
   Some(<<"P", "1">>), Some(<<"P", "2">>)}

AssigneeLists == {<<>>, <<"alice">>}

StatsPool ==
  {<<"OPEN", due, pr, asg>> :
     due \in {None, Some(0)}, pr \in Priorities, asg \in AssigneeLists}
  \cup
  {<<st, due, pr, asg>> :
     st \in {"CLOSED", "MERGED"}, due \in {None, Some(0)},
     pr \in {None, Some(<<"p", "0">>)}, asg \in AssigneeLists}

InitStats ==
  /\ TasksFrom(StatsPool)
  /\ now = MaxTime
  /\ last = NoResult
  /\ prev = NoResult
  /\ ui = NoUi

NextStats == CalculateStats

SpecStats == InitStats /\ [][NextStats]_vars

\* the OPEN tasks with no assignee, in collection order
OpenUnassigned(ts) ==
  Picked(ts, {k \in Positions(ts) : ts[k].state = "OPEN" /\ ts[k].assignees = <<>>})

\* C4: every task of noTechHandoffETAList is in exactly one of p0List,
\* p1List, noPriorityList and the three sizes sum to noTechHandoffETA; the
\* same holds for unassignedByPriority and the OPEN tasks with no assignee.
C4_PriorityListsPartition ==
  last.op = "calculateStats" =>
    LET st == last.stats
        L == st.noTechHandoffETAList
        bp == st.noTechHandoffETAByPriority
        U == OpenUnassigned(tasks)
        up == st.unassignedByPriority
    IN /\ \A j \in DOMAIN L :
            Count(bp.p0List, L[j]) + Count(bp.p1List, L[j])
              + Count(bp.noPriorityList, L[j]) = 1
       /\ Len(bp.p0List) + Len(bp.p1List) + Len(bp.noPriorityList) = st.noTechHandoffETA
       /\ bp.p0 + bp.p1 + bp.noPriority = Len(L)
       /\ \A j \in DOMAIN U :
            Count(up.p0List, U[j]) + Count(up.p1List, U[j])
              + Count(up.noPriorityList, U[j]) = 1
       /\ Len(up.p0List) + Len(up.p1List) + Len(up.noPriorityList) = Len(U)
       /\ up.p0 + up.p1 + up.noPriority = Len(U)

\* a p0 task and a P2 task, both without dueDate and unassigned, were split
C4_Witness ==
  /\ last.op = "calculateStats"
  /\ last.stats.noTechHandoffETAByPriority.p0 = 1
  /\ last.stats.noTechHandoffETAByPriority.noPriority = 1
  /\ last.stats.unassignedByPriority.p0 = 1
  /\ last.stats.unassignedByPriority.noPriority = 1
  /\ \E k \in Positions(tasks) : tasks[k].priority = Some(<<"P", "2">>)

\* C5: noTechHandoffETAList is the OPEN tasks without dueDate, in collection
\* order; noTechHandoffETA is its length; no CLOSED or MERGED task is in it.
C5_NoEtaListIsOpenUndated ==
  last.op = "calculateStats" =>
    LET st == last.stats
    IN /\ st.noTechHandoffETAList =
            Picked(tasks, {k \in Positions(tasks) :
                             tasks[k].state = "OPEN" /\ tasks[k].dueDate = None})
       /\ st.noTechHandoffETA = Len(st.noTechHandoffETAList)
       /\ \A j \in DOMAIN st.noTechHandoffETAList :
            st.noTechHandoffETAList[j].state \notin {"CLOSED", "MERGED"}

\* a MERGED task without dueDate was left out and the OPEN one after it listed
C5_Witness ==
  /\ last.op = "calculateStats"
  /\ Len(tasks) = 2
  /\ tasks[1].state = "MERGED" /\ tasks[1].dueDate = None
  /\ last.stats.noTechHandoffETAList = <<tasks[2]>>

\* C6: the tasks of unassignedByPriority's three lists are exactly the OPEN
\* tasks with an empty assignee list.
C6_UnassignedAreOpenUnassigned ==
  last.op = "calculateStats" =>
    LET up == last.stats.unassignedByPriority
    IN Range(up.p0List) \cup Range(up.p1List) \cup Range(up.noPriorityList)
         = {tasks[k] : k \in {m \in Positions(tasks) :
                                tasks[m].state = "OPEN" /\ Len(tasks[m].assignees) = 0}}

\* a CLOSED task without assignee was left out and an OPEN one counted
C6_Witness ==
  /\ last.op = "calculateStats"
  /\ \E k \in Positions(tasks) : tasks[k].state = "CLOSED" /\ tasks[k].assignees = <<>>
  /\ last.stats.unassignedByPriority.p0 = 1
  /\ last.stats.total = 2

SpellsP0(pr) == pr \in {Some(<<"p", "0">>), Some(<<"P", "0">>)}

SpellsP1(pr) == pr \in {Some(<<"p", "1">>), Some(<<"P", "1">>)}

BucketIn(byPriority, t) ==
  IF t \in Range(byPriority.p0List) THEN "P0"
  ELSE IF t \in Range(byPriority.p1List) THEN "P1"
  ELSE IF t \in Range(byPriority.noPriorityList) THEN "NO_PRIORITY"
  ELSE "NOT_LISTED"

BucketsBySpelling(list, byPriority) ==
  \A j \in DOMAIN list :
    /\ list[j] \in Range(byPriority.p0List) <=> SpellsP0(list[j].priority)
    /\ list[j] \in Range(byPriority.p1List) <=> SpellsP1(list[j].priority)
    /\ list[j] \in Range(byPriority.noPriorityList) <=>
         (~SpellsP0(list[j].priority) /\ ~SpellsP1(list[j].priority))

\* C7: in both breakdowns a task is bucketed P0 iff its priority is P0 in
\* either case, P1 iff it is P1 in either case, and NO_PRIORITY otherwise; a
\* task in both breakdowns gets the same bucket in both.
C7_BucketingCaseInsensitiveAndShared ==
  last.op = "calculateStats" =>
    LET st == last.stats
        L == st.noTechHandoffETAList
        U == OpenUnassigned(tasks)
    IN /\ BucketsBySpelling(L, st.noTechHandoffETAByPriority)
       /\ BucketsBySpelling(U, st.unassignedByPriority)
       /\ \A t \in Range(L) \cap Range(U) :
            BucketIn(st.noTechHandoffETAByPriority, t) = BucketIn(st.unassignedByPriority, t)

\* a p1 task in both breakdowns was bucketed P1 in both, beside an
\* empty-string priority bucketed NO_PRIORITY
C7_Witness ==
  /\ last.op = "calculateStats"
  /\ \E t \in Range(last.stats.noTechHandoffETAByPriority.p1List)
            \cap Range(last.stats.unassignedByPriority.p1List) :
       t.priority = Some(<<"p", "1">>)
  /\ \E t \in Range(last.stats.unassignedByPriority.noPriorityList) :
       t.priority = Some(<<>>)

(***************************************************************************)
(* SpecIdem: calculateStats called twice in succession while the clock     *)
(* runs.  OPEN tasks carry every dueDate; CLOSED and MERGED tasks one.     *)
(***************************************************************************)
IdemPool ==
  {<<"OPEN", due, None, <<>>>> : due \in DueDates}
  \cup {<<st, Some(0), None, <<>>>> : st \in {"CLOSED", "MERGED"}}

InitIdem ==
  /\ TasksFrom(IdemPool)
  /\ now \in Times
  /\ last = NoResult
  /\ prev = NoResult
  /\ ui = NoUi

NextIdem == Tick \/ CalculateStats \/ CalculateStatsAgain

SpecIdem == InitIdem /\ [][NextIdem]_vars

\* C8: two calculateStats calls in succession on the same collection give
\* equal TaskStats, whatever the clock does between them.
C8_TwoCallsEqual ==
  (last.op = "calculateStats" /\ prev.op = "calculateStats") =>
    last.stats = prev.stats

(***************************************************************************)
(* Grouping: a Map is the sequence of its entries in insertion order       *)
(***************************************************************************)
\* a Task with every field the engine reads
FullTask(id, st, due, pr, asg, repo, status, created) ==
  [id |-> id, state |-> st, dueDate |-> due, priority |-> pr, assignees |-> asg,
   repository |-> repo, status |-> status, createdAt |-> created]

\* tasks is a collection of at most MaxTasks tasks taken from Pool, a set of
\* tasks; each gets its position as id
TasksOf(Pool) ==
  \E n \in 0..MaxTasks : \E f \in [1..n -> Pool] :
    tasks = [k \in 1..n |-> [f[k] EXCEPT !.id = k]]

\* Map.prototype.has
MapHas(grouped, key) == \E j \in DOMAIN grouped : grouped[j].key = key

\* if (!grouped.has(key)) grouped.set(key, []); grouped.get(key)!.push(task)
MapPush(grouped, key, task) ==
  IF MapHas(grouped, key)
    THEN [j \in DOMAIN grouped |->
            IF grouped[j].key = key
              THEN [key |-> key, tasks |-> Append(grouped[j].tasks, task)]
              ELSE grouped[j]]
    ELSE Append(grouped, [key |-> key, tasks |-> <<task>>])

\* value || sentinel: null and the empty string are falsy
OrSentinel(value, sentinel) ==
  IF value = None THEN sentinel
  ELSE IF Val(value) = "" THEN sentinel
  ELSE Val(value)

repositoryKey_Unassigned(task) == OrSentinel(task.repository, "unassigned")

repositoryKey(task) == OrSentinel(task.repository, "unknown")

statusKey(task) == OrSentinel(task.status, "no-status")

RECURSIVE groupByRepositoryFrom(_, _, _)
groupByRepositoryFrom(ts, k, grouped) ==
  IF k > Len(ts) THEN grouped
  ELSE groupByRepositoryFrom(ts, k + 1, MapPush(grouped, repositoryKey(ts[k]), ts[k]))

groupByRepository(ts) == groupByRepositoryFrom(ts, 1, <<>>)

RECURSIVE pushForAssignees(_, _, _)
pushForAssignees(grouped, task, j) ==
  IF j > Len(task.assignees) THEN grouped
  ELSE pushForAssignees(MapPush(grouped, task.assignees[j], task), task, j + 1)

assigneeStep_FirstOnly(grouped, task) ==
  IF Len(task.assignees) = 0 THEN MapPush(grouped, "unassigned", task)
  ELSE MapPush(grouped, task.assignees[1], task)

\* the body of groupByAssignee's loop over the tasks
assigneeStep(grouped, task) ==
  IF Len(task.assignees) = 0 THEN MapPush(grouped, "unassigned", task)
  ELSE pushForAssignees(grouped, task, 1)

RECURSIVE groupByAssigneeFrom(_, _, _)
groupByAssigneeFrom(ts, k, grouped) ==
  IF k > Len(ts) THEN grouped
  ELSE groupByAssigneeFrom(ts, k + 1, assigneeStep(grouped, ts[k]))

groupByAssignee(ts) == groupByAssigneeFrom(ts, 1, <<>>)

RECURSIVE groupByStatusFrom(_, _, _)
groupByStatusFrom(ts, k, grouped) ==
  IF k > Len(ts) THEN grouped
  ELSE groupByStatusFrom(ts, k + 1, MapPush(grouped, statusKey(ts[k]), ts[k]))

groupByStatus(ts) == groupByStatusFrom(ts, 1, <<>>)

GroupByRepository ==
  /\ last' = [op |-> "groupByRepository", result |-> groupByRepository(tasks)]
  /\ prev' = NoResult
  /\ UNCHANGED <<tasks, now, ui>>

GroupByAssignee ==
  /\ last' = [op |-> "groupByAssignee", result |-> groupByAssignee(tasks)]
  /\ prev' = NoResult
  /\ UNCHANGED <<tasks, now, ui>>

GroupByStatus ==
  /\ last' = [op |-> "groupByStatus", result |-> groupByStatus(tasks)]
  /\ prev' = NoResult
  /\ UNCHANGED <<tasks, now, ui>>

\* the object built by grouped.forEach((tasks, key) => { counts[key] = tasks.length })
countsOf_Entries(grouped) == [key \in {grouped[j].key : j \in DOMAIN grouped} |-> Len(grouped)]

countsOf(grouped) ==
  [key \in {grouped[j].key : j \in DOMAIN grouped} |->
     Len(grouped[CHOOSE j \in DOMAIN grouped : grouped[j].key = key].tasks)]

getSummaryReport(ts, clockAt) ==
  [stats |-> calculateStats(ts, clockAt),
   byRepository |-> countsOf(groupByRepository(ts)),
   byAssignee |-> countsOf(groupByAssignee(ts)),
   byStatus |-> countsOf(groupByStatus(ts))]

GetSummaryReport ==
  \E clockAt \in ClockReads(Len(tasks), now) :
    /\ last' = [op |-> "getSummaryReport", from |-> now, clockAt |-> clockAt,
                report |-> getSummaryReport(tasks, clockAt)]
    /\ now' = IF Len(tasks) = 0 THEN now ELSE clockAt[Len(tasks)]
    /\ prev' = NoResult
    /\ UNCHANGED <<tasks, ui>>

(***************************************************************************)
(* SpecGroup: the groupings, over collections whose tasks differ in        *)
(* state, repository, status and assignees                                 *)
(***************************************************************************)
Repositories == {None, Some("org/api"), Some("org/web")}

Statuses == {None, Some("Done")}

TeamLists == {<<>>, <<"alice">>, <<"bob">>, <<"alice", "bob">>}

GroupPool ==
  {FullTask(0, st, None, None, asg, repo, status, 0) :
     st \in {"OPEN", "MERGED"}, asg \in TeamLists, repo \in Repositories,
     status \in Statuses}

InitGroup ==
  /\ TasksOf(GroupPool)
  /\ now = MaxTime
  /\ last = NoResult
  /\ prev = NoResult
  /\ ui = NoUi

NextGroup == GroupByRepository \/ GroupByAssignee \/ GroupByStatus \/ GetSummaryReport

SpecGroup == InitGroup /\ [][NextGroup]_vars

\* the tasks of the group keyed key, or none
GroupOf(grouped, key) ==
  IF MapHas(grouped, key)
    THEN grouped[CHOOSE j \in DOMAIN grouped : grouped[j].key = key].tasks
    ELSE <<>>

KeysOf(grouped) == {grouped[j].key : j \in DOMAIN grouped}

RECURSIVE SumOfSizes(_, _)
SumOfSizes(grouped, j) ==
  IF j > Len(grouped) THEN 0 ELSE Len(grouped[j].tasks) + SumOfSizes(grouped, j + 1)

RECURSIVE FanOut(_, _)
FanOut(ts, k) ==
  IF k > Len(ts) THEN 0
  ELSE (IF Len(ts[k].assignees) = 0 THEN 1 ELSE Len(ts[k].assignees)) + FanOut(ts, k + 1)

\* C11: groupByAssignee puts a task with no assignees once in the
\* 'unassigned' group and a task with assignees once in the group of each of
\* them, and in no other group; the group sizes sum to the sum over the tasks
\* of max(1, assignees.length).
C11_AssigneeFanOut ==
  last.op = "groupByAssignee" =>
    LET g == last.result
    IN /\ \A k \in Positions(tasks) : \A key \in KeysOf(g) \cup {"unassigned"} :
            Count(GroupOf(g, key), tasks[k]) =
              IF Len(tasks[k].assignees) = 0
                THEN (IF key = "unassigned" THEN 1 ELSE 0)
                ELSE (IF key \in Range(tasks[k].assignees) THEN 1 ELSE 0)
       /\ \A k \in Positions(tasks) :
            Range(tasks[k].assignees) \subseteq KeysOf(g)
       /\ SumOfSizes(g, 1) = FanOut(tasks, 1)
       /\ Cardinality(KeysOf(g)) = Len(g)

\* a task with two assignees is in both their groups, beside an unassigned one
C11_Witness ==
  /\ last.op = "groupByAssignee"
  /\ \E k \in Positions(tasks) :
       /\ Len(tasks[k].assignees) = 2
       /\ tasks[k] \in Range(GroupOf(last.result, "alice"))
       /\ tasks[k] \in Range(GroupOf(last.result, "bob"))
  /\ Len(GroupOf(last.result, "unassigned")) = 1
  /\ SumOfSizes(last.result, 1) = 3

\* the key groupByRepository is to file a task under
RepoOrUnknown(t) == IF t.repository = None THEN "unknown" ELSE Val(t.repository)

FirstSeen(ts, key) ==
  CHOOSE k \in Positions(ts) :
    /\ RepoOrUnknown(ts[k]) = key
    /\ \A m \in Positions(ts) : RepoOrUnknown(ts[m]) = key => k <= m

\* C12: groupByRepository puts each task in exactly one group, keyed by its
\* repository or by 'unknown' when it has none; the keys come in the order
\* their first task comes in the collection, the tasks of a group in
\* collection order, and an empty collection gives an empty mapping.
C12_RepositoryGroups ==
  last.op = "groupByRepository" =>
    LET g == last.result
    IN /\ KeysOf(g) = {RepoOrUnknown(tasks[k]) : k \in Positions(tasks)}
       /\ Cardinality(KeysOf(g)) = Len(g)
       /\ \A j \in DOMAIN g :
            g[j].tasks = Picked(tasks, {k \in Positions(tasks) :
                                          RepoOrUnknown(tasks[k]) = g[j].key})
       /\ \A i, j \in DOMAIN g :
            i < j => FirstSeen(tasks, g[i].key) < FirstSeen(tasks, g[j].key)
       /\ SumOfSizes(g, 1) = Len(tasks)
       /\ (tasks = <<>> => g = <<>>)

\* a task without repository came before a task with one: 'unknown' is the
\* first key
C12_Witness ==
  /\ last.op = "groupByRepository"
  /\ Len(last.result) = 2
  /\ last.result[1].key = "unknown"
  /\ last.result[2].key = "org/web"

StatusOrNone(t) == IF t.status = None THEN "no-status" ELSE Val(t.status)

AssigneeKeys(t) == IF Len(t.assignees) = 0 THEN {"unassigned"} ELSE Range(t.assignees)

RECURSIVE SumOfCounts(_, _)
SumOfCounts(counts, keys) ==
  IF keys = {} THEN 0
  ELSE LET key == CHOOSE x \in keys : TRUE
       IN counts[key] + SumOfCounts(counts, keys \ {key})

\* C16: getSummaryReport returns the stats of calculateStats and, for
\* byRepository, byAssignee and byStatus, the keys of the grouping with the
\* size of each group; the byRepository counts and the byStatus counts each
\* sum to stats.total.
C16_SummaryReportCounts ==
  last.op = "getSummaryReport" =>
    LET r == last.report
    IN /\ r.stats = calculateStats(tasks, last.clockAt)
       /\ r.stats.total = Len(tasks)
       /\ DOMAIN r.byRepository = KeysOf(groupByRepository(tasks))
       /\ DOMAIN r.byRepository = {RepoOrUnknown(tasks[k]) : k \in Positions(tasks)}
       /\ \A key \in DOMAIN r.byRepository :
            r.byRepository[key] =
              Cardinality({k \in Positions(tasks) : RepoOrUnknown(tasks[k]) = key})
       /\ DOMAIN r.byAssignee = KeysOf(groupByAssignee(tasks))
       /\ DOMAIN r.byAssignee = UNION {AssigneeKeys(tasks[k]) : k \in Positions(tasks)}
       /\ \A key \in DOMAIN r.byAssignee :
            r.byAssignee[key] =
              Cardinality({k \in Positions(tasks) : key \in AssigneeKeys(tasks[k])})
       /\ DOMAIN r.byStatus = KeysOf(groupByStatus(tasks))
       /\ DOMAIN r.byStatus = {StatusOrNone(tasks[k]) : k \in Positions(tasks)}
       /\ \A key \in DOMAIN r.byStatus :
            r.byStatus[key] =
              Cardinality({k \in Positions(tasks) : StatusOrNone(tasks[k]) = key})
       /\ SumOfCounts(r.byRepository, DOMAIN r.byRepository) = r.stats.total
       /\ SumOfCounts(r.byStatus, DOMAIN r.byStatus) = r.stats.total

\* two tasks of one repository, one with a status and one without, were
\* reported
C16_Witness ==
  /\ last.op = "getSummaryReport"
  /\ last.report.stats.total = 2
  /\ DOMAIN last.report.byRepository = {"org/api"}
  /\ last.report.byRepository["org/api"] = 2
  /\ DOMAIN last.report.byStatus = {"no-status", "Done"}
  /\ DOMAIN last.report.byAssignee = {"unassigned", "alice", "bob"}

(***************************************************************************)
(* Sorting and filtering                                                   *)
(***************************************************************************)
compareCreated_IgnoresDirection(a, b, ascending) == a.createdAt - b.createdAt

\* the comparator of sortByCreationDate
compareCreated(a, b, ascending) ==
  LET diff == a.createdAt - b.createdAt
  IN IF ascending THEN diff ELSE 0 - diff

compareDue_NullsByDirection(a, b, ascending) ==
  LET ka == IF a.dueDate = None THEN MaxTime + 1 ELSE Val(a.dueDate)
      kb == IF b.dueDate = None THEN MaxTime + 1 ELSE Val(b.dueDate)
  IN IF ascending THEN ka - kb ELSE kb - ka

\* the comparator of sortByDueDate
compareDue(a, b, ascending) ==
  IF a.dueDate = None /\ b.dueDate = None THEN 0
  ELSE IF a.dueDate = None THEN 1
  ELSE IF b.dueDate = None THEN 0 - 1
  ELSE LET diff == Val(a.dueDate) - Val(b.dueDate)
       IN IF ascending THEN diff ELSE 0 - diff

compare(by, a, b, ascending) ==
  IF by = "createdAt" THEN compareCreated(a, b, ascending) ELSE compareDue(a, b, ascending)

\* Array.prototype.sort is stable: x goes behind every element that does not
\* compare greater than it
RECURSIVE insertStable(_, _, _, _)
insertStable(sorted, x, by, ascending) ==
  IF sorted = <<>> THEN <<x>>
  ELSE IF compare(by, sorted[Len(sorted)], x, ascending) > 0
    THEN Append(insertStable(SubSeq(sorted, 1, Len(sorted) - 1), x, by, ascending),
                sorted[Len(sorted)])
    ELSE Append(sorted, x)

RECURSIVE arraySortFrom(_, _, _, _, _)
arraySortFrom(arr, k, sorted, by, ascending) ==
  IF k > Len(arr) THEN sorted
  ELSE arraySortFrom(arr, k + 1, insertStable(sorted, arr[k], by, ascending), by, ascending)

\* Array.prototype.sort(compare): the sorted order of arr
arraySort(arr, by, ascending) == arraySortFrom(arr, 1, <<>>, by, ascending)

\* [...tasks].sort(...): result is the sorted copy that is returned, input is
\* the caller's array after the call
sortByCreationDate(ts, ascending) ==
  [input |-> ts, result |-> arraySort(ts, "createdAt", ascending)]

sortByDueDate_InPlace(ts, ascending) ==
  [input |-> arraySort(ts, "dueDate", ascending),
   result |-> arraySort(ts, "dueDate", ascending)]

sortByDueDate(ts, ascending) ==
  [input |-> ts, result |-> arraySort(ts, "dueDate", ascending)]

filterByDateRange_Exclusive(ts, startDate, endDate) ==
  SelectSeq(ts, LAMBDA t :
    /\ ~(startDate # None /\ t.createdAt <= Val(startDate))
    /\ ~(endDate # None /\ t.createdAt >= Val(endDate)))

\* a Date object is truthy, so only null switches a bound off
filterByDateRange(ts, startDate, endDate) ==
  SelectSeq(ts, LAMBDA t :
    IF startDate # None /\ t.createdAt < Val(startDate) THEN FALSE
    ELSE IF endDate # None /\ t.createdAt > Val(endDate) THEN FALSE
    ELSE TRUE)

\* the ascending argument: left out, true or false
AscendingArgs == {None, Some(TRUE), Some(FALSE)}

SortByCreationDate ==
  \E arg \in AscendingArgs :
    LET r == sortByCreationDate(tasks, IF arg = None THEN FALSE ELSE Val(arg))
    IN /\ last' = [op |-> "sortByCreationDate", ascending |-> arg, result |-> r.result]
       /\ tasks' = r.input
       /\ prev' = NoResult
       /\ UNCHANGED <<now, ui>>

SortByDueDate ==
  \E arg \in AscendingArgs :
    LET r == sortByDueDate(tasks, IF arg = None THEN TRUE ELSE Val(arg))
    IN /\ last' = [op |-> "sortByDueDate", ascending |-> arg, result |-> r.result]
       /\ tasks' = r.input
       /\ prev' = NoResult
       /\ UNCHANGED <<now, ui>>

FilterByDateRange ==
  \E startDate \in DueDates, endDate \in DueDates :
    /\ last' = [op |-> "filterByDateRange", startDate |-> startDate, endDate |-> endDate,
                result |-> filterByDateRange(tasks, startDate, endDate)]
    /\ prev' = NoResult
    /\ UNCHANGED <<tasks, now, ui>>

(***************************************************************************)
(* SpecSort: the two sorts, over collections whose tasks differ in         *)
(* createdAt and dueDate                                                   *)
(***************************************************************************)
SortPool ==
  {FullTask(0, "OPEN", due, None, <<>>, None, None, created) :
     due \in DueDates, created \in Times}

InitSort ==
  /\ TasksOf(SortPool)
  /\ now = MaxTime
  /\ last = NoResult
  /\ prev = NoResult
  /\ ui = NoUi

NextSort == SortByCreationDate \/ SortByDueDate

SpecSort == InitSort /\ [][NextSort]_vars

\* list holds the tasks of ts, each once
IsPermutation(list, ts) ==
  /\ Len(list) = Len(ts)
  /\ \A k \in Positions(ts) : Count(list, ts[k]) = 1

\* C13: sortByDueDate returns a permutation of the input in which every task
\* without dueDate comes after every task with one; the dated tasks come
\* earliest first by default and when ascending is true, latest first when
\* ascending is false.
C13_SortByDueDate ==
  last.op = "sortByDueDate" =>
    LET r == last.result
        asc == IF last.ascending = None THEN TRUE ELSE Val(last.ascending)
    IN /\ IsPermutation(r, tasks)
       /\ \A i, j \in DOMAIN r :
            (r[i].dueDate = None /\ r[j].dueDate # None) => j < i
       /\ \A i, j \in DOMAIN r :
            (i < j /\ r[i].dueDate # None /\ r[j].dueDate # None) =>
              IF asc THEN Val(r[i].dueDate) <= Val(r[j].dueDate)
              ELSE Val(r[i].dueDate) >= Val(r[j].dueDate)

\* sorted latest first, an undated task that came first went behind the dated
C13_Witness ==
  /\ last.op = "sortByDueDate"
  /\ last.ascending = Some(FALSE)
  /\ Len(tasks) = 2
  /\ tasks[1].dueDate = None
  /\ tasks[2].dueDate # None
  /\ last.result = <<tasks[2], tasks[1]>>

\* C14: sortByCreationDate returns a permutation of the input ordered by
\* createdAt, newest first by default and oldest first when ascending is
\* true; tasks with equal createdAt keep their input order either way.
C14_SortByCreationDate ==
  last.op = "sortByCreationDate" =>
    LET r == last.result
        asc == IF last.ascending = None THEN FALSE ELSE Val(last.ascending)
    IN /\ IsPermutation(r, tasks)
       /\ \A i, j \in DOMAIN r :
            i < j =>
              /\ IF asc THEN r[i].createdAt <= r[j].createdAt
                 ELSE r[i].createdAt >= r[j].createdAt
              /\ r[i].createdAt = r[j].createdAt => r[i].id < r[j].id

\* sorted by default, the newer second task came first
C14_Witness ==
  /\ last.op = "sortByCreationDate"
  /\ last.ascending = None
  /\ Len(tasks) = 2
  /\ tasks[1].createdAt < tasks[2].createdAt
  /\ last.result = <<tasks[2], tasks[1]>>

(***************************************************************************)
(* SpecFilter: filterByDateRange, over collections whose tasks differ in   *)
(* createdAt                                                               *)
(***************************************************************************)
FilterPool ==
  {FullTask(0, "OPEN", None, None, <<>>, None, None, created) : created \in Times}

InitFilter ==
  /\ TasksOf(FilterPool)
  /\ now = MaxTime
  /\ last = NoResult
  /\ prev = NoResult
  /\ ui = NoUi

NextFilter == FilterByDateRange

SpecFilter == InitFilter /\ [][NextFilter]_vars

\* C15: filterByDateRange keeps exactly the tasks with start <= createdAt <=
\* end, in input order; an absent bound does not constrain; a task created at
\* a bound is kept, and with no bound every task is kept.
C15_FilterInclusive ==
  last.op = "filterByDateRange" =>
    /\ last.result =
         Picked(tasks, {k \in Positions(tasks) :
           /\ (last.startDate = None \/ Val(last.startDate) <= tasks[k].createdAt)
           /\ (last.endDate = None \/ tasks[k].createdAt <= Val(last.endDate))})
    /\ ((last.startDate = None /\ last.endDate = None) => last.result = tasks)

\* a task created at start and a task created at end were both kept
C15_Witness ==
  /\ last.op = "filterByDateRange"
  /\ Len(tasks) = 2
  /\ last.startDate = Some(tasks[1].createdAt)
  /\ last.endDate = Some(tasks[2].createdAt)
  /\ tasks[1].createdAt < tasks[2].createdAt
  /\ last.result = tasks

(***************************************************************************)
(* SpecFrame: every engine operation, called in any order on one           *)
(* collection whose tasks differ in createdAt and dueDate                  *)
(***************************************************************************)
FramePool ==
  {FullTask(0, "OPEN", due, None, <<>>, None, None, created) :
     due \in {None, Some(0)}, created \in Times}

InitFrame ==
  /\ TasksOf(FramePool)
  /\ now = MaxTime
  /\ last = NoResult
  /\ prev = NoResult
  /\ ui = NoUi

NextFrame ==
  \/ CalculateStats
  \/ SegregateTasks
  \/ GroupByRepository
  \/ GroupByAssignee
  \/ GroupByStatus
  \/ SortByCreationDate
  \/ SortByDueDate
  \/ FilterByDateRange
  \/ GetSummaryReport

SpecFrame == InitFrame /\ [][NextFrame]_vars

\* C17: no engine operation changes its input: over any sequence of calls the
\* collection keeps its tasks, their order and their field values; the two
\* sorts return a new sequence and leave the input's order alone.
C17_InputUnchanged == [][tasks' = tasks]_vars

\* a sort returned another order than the input's, which is not sorted
C17_Witness ==
  /\ last.op = "sortByDueDate"
  /\ Len(tasks) = 2
  /\ last.result = <<tasks[2], tasks[1]>>
  /\ tasks[1].dueDate = None
  /\ tasks[2].dueDate # None

(***************************************************************************)
(* TasksTable: the overdue flag and the page-number buttons                *)
(***************************************************************************)
\* TasksTable.isOverdue
tableIsOverdue(task, clock) ==
  IF task.dueDate = None \/ task.state # "OPEN" THEN FALSE
  ELSE Val(task.dueDate) < clock

\* the table and the engine classify one task at one clock reading
ClassifyOverdue ==
  \E k \in 1..Len(tasks) :
    /\ last' = [op |-> "classifyOverdue", task |-> tasks[k], at |-> now,
                table |-> tableIsOverdue(tasks[k], now),
                engine |-> isOverdue(tasks[k], now)]
    /\ prev' = NoResult
    /\ UNCHANGED <<tasks, now, ui>>

(***************************************************************************)
(* SpecBadge: the table's and the engine's overdue flag, over collections  *)
(* whose tasks differ in state and dueDate, with a running clock           *)
(***************************************************************************)
InitBadge ==
  /\ TasksFrom(OverduePool)
  /\ now \in Times
  /\ last = NoResult
  /\ prev = NoResult
  /\ ui = NoUi

NextBadge == Tick \/ ClassifyOverdue

SpecBadge == InitBadge /\ [][NextBadge]_vars

\* C18: for every task and clock value the table's overdue flag equals the
\* engine's isOverdue.
C18_TableAgreesWithEngine ==
  last.op = "classifyOverdue" => last.table = last.engine

(***************************************************************************)
(* The page-number buttons                                                 *)
(***************************************************************************)
\* Array.from({ length: Math.min(5, totalPages) }, ...)
MaxPageButtons == 5

pageNumAt_NoEndClamp(i, currentPage, totalPages) ==
  IF totalPages <= 5 THEN i + 1
  ELSE IF currentPage <= 3 THEN i + 1
  ELSE currentPage - 2 + i

\* pageNum of the button with index i
pageNumAt(i, currentPage, totalPages) ==
  IF totalPages <= 5 THEN i + 1
  ELSE IF currentPage <= 3 THEN i + 1
  ELSE IF currentPage >= totalPages - 2 THEN totalPages - 4 + i
  ELSE currentPage - 2 + i

pageButtons(currentPage, totalPages) ==
  [b \in 1..(IF totalPages < MaxPageButtons THEN totalPages ELSE MaxPageButtons) |->
     pageNumAt(b - 1, currentPage, totalPages)]

\* the pagination bar is drawn for a table on page currentPage of totalPages
RenderPageButtons ==
  \E totalPages \in 2..MaxPages : \E currentPage \in 1..totalPages :
    /\ last' = [op |-> "pageButtons", currentPage |-> currentPage,
                totalPages |-> totalPages,
                buttons |-> pageButtons(currentPage, totalPages)]
    /\ prev' = NoResult
    /\ UNCHANGED <<tasks, now, ui>>

InitPages ==
  /\ tasks = <<>>
  /\ now = 0
  /\ last = NoResult
  /\ prev = NoResult
  /\ ui = NoUi

NextPages == RenderPageButtons

SpecPages == InitPages /\ [][NextPages]_vars

\* C20: with more than one page and the current page among them, the page
\* buttons are min(5, totalPages) consecutive page numbers within
\* 1..totalPages, and the current page is one of them.
C20_PageWindow ==
  last.op = "pageButtons" =>
    LET b == last.buttons
        n == IF last.totalPages < 5 THEN last.totalPages ELSE 5
    IN /\ Len(b) = n
       /\ \A i \in 1..(n - 1) : b[i + 1] = b[i] + 1
       /\ \A i \in 1..n : b[i] >= 1 /\ b[i] <= last.totalPages
       /\ \E i \in 1..n : b[i] = last.currentPage

\* on the page before the last of more than five pages the buttons end at the
\* last page
C20_Witness ==
  /\ last.op = "pageButtons"
  /\ last.totalPages > 5
  /\ last.currentPage = last.totalPages - 1
  /\ last.buttons[5] = last.totalPages
  /\ last.buttons[1] = last.totalPages - 4

(***************************************************************************)
(* TasksTable: filter, sort and page state.  The tasks prop is kept as the *)
(* number of its tasks of each kind, which is all the page arithmetic      *)
(* reads: OPEN tasks the table's isOverdue accepts, other OPEN tasks and   *)
(* CLOSED tasks.  Of the six filter fields filterState is modelled; the    *)
(* other five are set, cleared and watched by the same code.               *)
(***************************************************************************)
\* useState<number>(25)
DefaultItemsPerPage == 25

\* the options of the per-page select
ItemsPerPageOptions == {10, 25, 50, 100}

\* the options of the state select
FilterStateOptions == {"all", "OPEN", "CLOSED", "MERGED"}

\* the columns whose header calls handleSort
SortFields == {"title", "type", "state", "status", "repository", "dueDate", "createdAt"}

TaskCounts ==
  {c \in [{"overdue", "open", "closed"} -> 0..MaxTableTasks] :
     c["overdue"] + c["open"] + c["closed"] <= MaxTableTasks}

\* filteredTasks.length
filteredCount(u) ==
  LET shown == IF u.showOverdueOnly
                 THEN [overdue |-> u.tasks["overdue"], open |-> 0, closed |-> 0]
                 ELSE [overdue |-> u.tasks["overdue"], open |-> u.tasks["open"],
                       closed |-> u.tasks["closed"]]
  IN IF u.filterState = "all" THEN shown.overdue + shown.open + shown.closed
     ELSE IF u.filterState = "OPEN" THEN shown.overdue + shown.open
     ELSE IF u.filterState = "CLOSED" THEN shown.closed
     ELSE 0

\* Math.ceil(sortedTasks.length / itemsPerPage)
totalPagesOf(u) == (filteredCount(u) + u.itemsPerPage - 1) \div u.itemsPerPage

\* paginatedTasks.length
paginatedCount(u) ==
  LET startIndex == (u.currentPage - 1) * u.itemsPerPage
      rest == filteredCount(u) - startIndex
  IN IF rest <= 0 THEN 0 ELSE IF rest < u.itemsPerPage THEN rest ELSE u.itemsPerPage

\* the filter row and the per-page select are drawn
ControlsShown(u) == u.mounted /\ ~u.showOverdueOnly

\* the pagination bar is drawn
PaginationShown(u) == u.mounted /\ ~u.showOverdueOnly /\ totalPagesOf(u) > 1

\* the state select changes; the reset memo sees the new filterState and
\* sets the page to 1
SetFilterState ==
  /\ ControlsShown(ui)
  /\ \E v \in FilterStateOptions \ {ui.filterState} :
       ui' = [ui EXCEPT !.filterState = v, !.currentPage = 1]
  /\ UNCHANGED <<tasks, now, last, prev>>

\* the clear button is drawn while a filter is active
ClearAllFilters ==
  /\ ControlsShown(ui)
  /\ ui.filterState # "all"
  /\ ui' = [ui EXCEPT !.filterState = "all", !.currentPage = 1]
  /\ UNCHANGED <<tasks, now, last, prev>>

SetItemsPerPage ==
  /\ ControlsShown(ui)
  /\ \E v \in ItemsPerPageOptions \ {ui.itemsPerPage} :
       ui' = [ui EXCEPT !.itemsPerPage = v, !.currentPage = 1]
  /\ UNCHANGED <<tasks, now, last, prev>>

HandleSort ==
  /\ ui.mounted
  /\ \E field \in SortFields :
       ui' = IF ui.sortField = field
               THEN [ui EXCEPT !.sortDirection = IF @ = "asc" THEN "desc" ELSE "asc"]
               ELSE [ui EXCEPT !.sortField = field, !.sortDirection = "desc"]
  /\ UNCHANGED <<tasks, now, last, prev>>

ClickFirst ==
  /\ PaginationShown(ui)
  /\ ui.currentPage # 1
  /\ ui' = [ui EXCEPT !.currentPage = 1]
  /\ UNCHANGED <<tasks, now, last, prev>>

ClickPrevious ==
  /\ PaginationShown(ui)
  /\ ui.currentPage # 1
  /\ ui' = [ui EXCEPT !.currentPage = IF @ - 1 < 1 THEN 1 ELSE @ - 1]
  /\ UNCHANGED <<tasks, now, last, prev>>

ClickPageNumber ==
  /\ PaginationShown(ui)
  /\ \E b \in DOMAIN pageButtons(ui.currentPage, totalPagesOf(ui)) :
       ui' = [ui EXCEPT !.currentPage = pageButtons(ui.currentPage, totalPagesOf(ui))[b]]
  /\ UNCHANGED <<tasks, now, last, prev>>

ClickNext ==
  /\ PaginationShown(ui)
  /\ ui.currentPage # totalPagesOf(ui)
  /\ ui' = [ui EXCEPT !.currentPage =
                        IF @ + 1 > totalPagesOf(ui) THEN totalPagesOf(ui) ELSE @ + 1]
  /\ UNCHANGED <<tasks, now, last, prev>>

ClickLast ==
  /\ PaginationShown(ui)
  /\ ui.currentPage # totalPagesOf(ui)
  /\ ui' = [ui EXCEPT !.currentPage = totalPagesOf(ui)]
  /\ UNCHANGED <<tasks, now, last, prev>>

\* the parent hands over a tasks list with one task more or one task less;
\* no state of the table depends on the tasks prop
ReceiveTasks ==
  /\ ui.mounted
  /\ \E kind \in {"overdue", "open", "closed"}, step \in {1, 0 - 1} :
       LET c == [ui.tasks EXCEPT ![kind] = @ + step]
       IN /\ c[kind] >= 0
          /\ c["overdue"] + c["open"] + c["closed"] <= MaxTableTasks
          /\ ui' = [ui EXCEPT !.tasks = c]
  /\ UNCHANGED <<tasks, now, last, prev>>

\* the parent changes the showOverdueOnly prop
ReceiveShowOverdueOnly ==
  /\ ui.mounted
  /\ ui' = [ui EXCEPT !.showOverdueOnly = ~@]
  /\ UNCHANGED <<tasks, now, last, prev>>

\* the table as mounted: the useState defaults over any props
InitTable ==
  /\ tasks = <<>>
  /\ now = 0
  /\ last = NoResult
  /\ prev = NoResult
  /\ \E c \in TaskCounts, only \in BOOLEAN :
       ui = [mounted |-> TRUE, tasks |-> c, showOverdueOnly |-> only,
             sortField |-> "createdAt", sortDirection |-> "desc",
             filterState |-> "all", currentPage |-> 1,
             itemsPerPage |-> DefaultItemsPerPage]

NextTable ==
  \/ SetFilterState
  \/ ClearAllFilters
  \/ SetItemsPerPage
  \/ HandleSort
  \/ ClickFirst
  \/ ClickPrevious
  \/ ClickPageNumber
  \/ ClickNext
  \/ ClickLast
  \/ ReceiveTasks
  \/ ReceiveShowOverdueOnly

SpecTable == InitTable /\ [][NextTable]_vars

\* C19: after any sequence of events currentPage is within
\* 1..max(1, totalPages), so the page shown is not empty while filtered
\* tasks exist.
C19_PageInRange ==
  ui.mounted =>
    /\ ui.currentPage >= 1
    /\ ui.currentPage <= (IF totalPagesOf(ui) < 1 THEN 1 ELSE totalPagesOf(ui))
    /\ (filteredCount(ui) > 0 => paginatedCount(ui) > 0)

(***************************************************************************)
(* AssigneeBreakdown: the chart of open tasks by assignee; assigneeMap is  *)
(* the sequence of its entries in insertion order                          *)
(***************************************************************************)
TOP_N == 10

\* assigneeMap.set(name, (assigneeMap.get(name) || 0) + 1)
mapIncrement(assigneeMap, name) ==
  IF \E j \in DOMAIN assigneeMap : assigneeMap[j].name = name
    THEN [j \in DOMAIN assigneeMap |->
            IF assigneeMap[j].name = name
              THEN [name |-> name, value |-> assigneeMap[j].value + 1]
              ELSE assigneeMap[j]]
    ELSE Append(assigneeMap, [name |-> name, value |-> 1])

RECURSIVE countForAssignees(_, _, _)
countForAssignees(assigneeMap, task, j) ==
  IF j > Len(task.assignees) THEN assigneeMap
  ELSE countForAssignees(mapIncrement(assigneeMap, task.assignees[j]), task, j + 1)

\* the body of the loop over openTasks
countStep(assigneeMap, task) ==
  IF Len(task.assignees) = 0 THEN mapIncrement(assigneeMap, "Unassigned")
  ELSE countForAssignees(assigneeMap, task, 1)

RECURSIVE assigneeMapFrom(_, _, _)
assigneeMapFrom(openTasks, k, assigneeMap) ==
  IF k > Len(openTasks) THEN assigneeMap
  ELSE assigneeMapFrom(openTasks, k + 1, countStep(assigneeMap, openTasks[k]))

\* .sort((a, b) => b.value - a.value), stable: x goes behind every entry
\* that does not compare greater than it
RECURSIVE insertByValue(_, _)
insertByValue(sorted, x) ==
  IF sorted = <<>> THEN <<x>>
  ELSE IF x.value - sorted[Len(sorted)].value > 0
    THEN Append(insertByValue(SubSeq(sorted, 1, Len(sorted) - 1), x), sorted[Len(sorted)])
    ELSE Append(sorted, x)

RECURSIVE sortByValueFrom(_, _, _)
sortByValueFrom(arr, k, sorted) ==
  IF k > Len(arr) THEN sorted
  ELSE sortByValueFrom(arr, k + 1, insertByValue(sorted, arr[k]))

\* Array.prototype.slice(from, to) and slice(from)
slice(arr, from, to) == SubSeq(arr, from + 1, IF to < Len(arr) THEN to ELSE Len(arr))

\* .reduce((sum, item) => sum + item.value, 0)
RECURSIVE sumOfValues(_, _)
sumOfValues(arr, j) ==
  IF j > Len(arr) THEN 0 ELSE arr[j].value + sumOfValues(arr, j + 1)

othersName_AllEntries(sortedData) == "Others (" \o ToString(Len(sortedData)) \o ")"

\* `Others (${sortedData.length - TOP_N})`
othersName(sortedData) == "Others (" \o ToString(Len(sortedData) - TOP_N) \o ")"

\* the value the useMemo of AssigneeBreakdown computes from the tasks prop
assigneeBreakdown(ts) ==
  LET openTasks == SelectSeq(ts, LAMBDA t : t.state = "OPEN")
      sortedData == sortByValueFrom(assigneeMapFrom(openTasks, 1, <<>>), 1, <<>>)
      topData == slice(sortedData, 0, TOP_N)
      othersCount == sumOfValues(slice(sortedData, TOP_N, Len(sortedData)), 1)
  IN [chartData |-> IF othersCount > 0
                      THEN Append(topData, [name |-> othersName(sortedData),
                                            value |-> othersCount])
                      ELSE topData,
      allData |-> sortedData,
      totalOpenTasks |-> Len(openTasks)]

\* the chart renders for the tasks it was handed
RenderAssigneeBreakdown ==
  /\ last' = [op |-> "AssigneeBreakdown", memo |-> assigneeBreakdown(tasks)]
  /\ prev' = NoResult
  /\ UNCHANGED <<tasks, now, ui>>

(***************************************************************************)
(* SpecChart: the chart over collections with up to TOP_N + 3 distinct     *)
(* entries                                                                 *)
(***************************************************************************)
Logins ==
  <<"u01", "u02", "u03", "u04", "u05", "u06", "u07", "u08", "u09", "u10", "u11", "u12">>

\* no assignee, one assignee, a user whose login is Unassigned, and teams of
\* TOP_N and more
ChartTeams ==
  {<<>>, <<"u01">>, <<"u12">>, <<"Unassigned">>, SubSeq(Logins, 11, 12),
   SubSeq(Logins, 1, TOP_N), SubSeq(Logins, 1, TOP_N + 1), SubSeq(Logins, 2, TOP_N + 2)}

ChartPool ==
  {Task(0, st, None, None, asg) : st \in {"OPEN", "CLOSED"}, asg \in ChartTeams}
    \cup {Task(0, "MERGED", None, None, <<"u01">>)}

InitChart ==
  /\ \E n \in 0..MaxChartTasks : \E f \in [1..n -> ChartPool] :
       tasks = [k \in 1..n |-> [f[k] EXCEPT !.id = k]]
  /\ now = MaxTime
  /\ last = NoResult
  /\ prev = NoResult
  /\ ui = NoUi

NextChart == RenderAssigneeBreakdown

SpecChart == InitChart /\ [][NextChart]_vars

\* the names a task is counted under
ChartKeys(task) == IF task.assignees = <<>> THEN <<"Unassigned">> ELSE task.assignees

\* how often name is among the names the OPEN tasks of ts are counted under
OpenOccurrences(ts, name) ==
  Cardinality({p \in (DOMAIN ts) \X (1..Len(Logins)) :
                 /\ ts[p[1]].state = "OPEN"
                 /\ p[2] <= Len(ChartKeys(ts[p[1]]))
                 /\ ChartKeys(ts[p[1]])[p[2]] = name})

ChartNames(ts) ==
  UNION {Range(ChartKeys(ts[k])) : k \in {j \in DOMAIN ts : ts[j].state = "OPEN"}}

\* the sum over the OPEN tasks of max(1, assignees.length)
RECURSIVE OpenWeight(_, _)
OpenWeight(ts, k) ==
  IF k > Len(ts) THEN 0
  ELSE (IF ts[k].state # "OPEN" THEN 0
        ELSE IF Len(ts[k].assignees) < 1 THEN 1 ELSE Len(ts[k].assignees))
       + OpenWeight(ts, k + 1)

\* C21: allData has one entry per name the OPEN tasks are counted under,
\* valued by the number of times the name is counted, largest first;
\* chartData is allData when it has at most TOP_N entries, and else its first
\* TOP_N entries followed by "Others (k)" for the k entries left, valued by
\* their sum; the values of chartData and of allData both sum to the sum
\* over the OPEN tasks of max(1, assignees.length).
C21_ChartTotals ==
  last.op = "AssigneeBreakdown" =>
    LET all == last.memo.allData
        chart == last.memo.chartData
    IN /\ {all[j].name : j \in DOMAIN all} = ChartNames(tasks)
       /\ \A i, j \in DOMAIN all : all[i].name = all[j].name => i = j
       /\ \A j \in DOMAIN all : all[j].value = OpenOccurrences(tasks, all[j].name)
       /\ \A i, j \in DOMAIN all : i < j => all[i].value >= all[j].value
       /\ Len(chart) <= TOP_N + 1
       /\ IF Len(all) <= TOP_N THEN chart = all
          ELSE /\ Len(chart) = TOP_N + 1
               /\ \A j \in 1..TOP_N : chart[j] = all[j]
               /\ chart[TOP_N + 1].name
                    = "Others (" \o ToString(Len(all) - TOP_N) \o ")"
               /\ chart[TOP_N + 1].value
                    = sumOfValues(all, 1) - sumOfValues(SubSeq(all, 1, TOP_N), 1)
       /\ sumOfValues(chart, 1) = sumOfValues(all, 1)
       /\ sumOfValues(all, 1) = OpenWeight(tasks, 1)

\* twelve entries: ten of 2 shown, u01 and u12 of 1 each folded into
\* Others (2), beside a CLOSED task that is not counted
C21_Witness ==
  /\ last.op = "AssigneeBreakdown"
  /\ \E k \in DOMAIN tasks : tasks[k].state = "CLOSED" /\ tasks[k].assignees # <<>>
  /\ Len(last.memo.allData) = TOP_N + 2
  /\ last.memo.allData[1] = [name |-> "u02", value |-> 2]
  /\ last.memo.chartData[TOP_N + 1] = [name |-> "Others (2)", value |-> 2]

====
